---- MODULE Spec2Model ----
(***************************************************************************)
(* Split/merge detection between two TAD tables                            *)
(* (src/src/split_merge_detect.py, src/src/func_condition_wrapper.py).     *)
(*                                                                         *)
(* Number representation.  The columns start_tad1, end_tad1 and size_tad1  *)
(* of the candidate table are floats in the program: start - 1.5*binsize,  *)
(* end + 1.5*binsize and (end - start)*length_flexibility.  Every such     *)
(* value is a multiple of 1/Den, and the model holds the integer Den*v     *)
(* for the float v.  The columns start_tad2, end_tad2, size_tad2 are       *)
(* integers and are held as they are; a comparison of a float column with  *)
(* an integer column scales the integer by Den.  The flexibility factor    *)
(* is held in tenths (11 stands for 1.1).                                  *)
(***************************************************************************)
EXTENDS Integers, Sequences, FiniteSets, TLC

VARIABLES
    tad1_file,            \* content of the CSV at path_tad_1
    tad2_file,            \* content of the CSV at path_tad_2
    binsize,              \* the binsize argument of main_split_merge_detection
    resolution,           \* the resolution argument (bin width of the coolers)
    pc,                   \* position inside wrapper / main_split_merge_detection
    option,               \* 0 before the loop, 1 = 'split', 2 = 'merge'
    final_table,          \* tad_split_table, then the same frame as final_table
    calls,                \* scorer calls made by choose_region for the option
    files,                \* option -> the table written to <option>_coords.csv
    split_merge_episodes, \* the list of counts
    raised,               \* the exception in flight ("none" when there is none)
    result,               \* what the decorated function returned to its caller
    stdout,               \* the result line the wrapper printed
    stderr,               \* the traceback the wrapper printed
    norm,                 \* state of the normalise / de-normalise round trip
    ci                    \* state of a stand-alone calculate_intensity call

vars == <<tad1_file, tad2_file, binsize, resolution, pc, option, final_table, calls,
          files, split_merge_episodes, raised, result, stdout, stderr, norm, ci>>

inputVars == <<tad1_file, tad2_file, binsize, resolution>>

----------------------------------------------------------------------------
(* Program constants *)

\* BINSIZE_COEF = 1.5 = BINSIZE_COEF_NUM / BINSIZE_COEF_DEN
BINSIZE_COEF_NUM == 3

BINSIZE_COEF_DEN == 2

\* default binsize of find_split
DEFAULT_BINSIZE == 100000

\* default length_flexibility of find_split, in tenths (1.1)
DEFAULT_FLEXIBILITY == 11

FLEX_DEN == 10

\* common denominator of the float columns
Den == BINSIZE_COEF_DEN * FLEX_DEN

\* the float BINSIZE_COEF * b
BinsizeCoefTimes(b) == BINSIZE_COEF_NUM * (Den \div BINSIZE_COEF_DEN) * b

----------------------------------------------------------------------------
(* Bounds of the model *)

\* coordinates of the TAD records are 0, Unit, ..., MaxCoord * Unit
MaxCoord == 3

\* at most MaxMain records in the first table, MaxSmall in the second
MaxMain == 2

MaxSmall == 3

Unit == 2 * DEFAULT_BINSIZE

Chroms == <<"chr1", "chr2">>

ChromIdx(c) == CHOOSE i \in 1..Len(Chroms) : Chroms[i] = c

Coords == {k * Unit : k \in 0..MaxCoord}

TadRecords == {[chrom |-> Chroms[c], start |-> s, end |-> e] :
                 c \in 1..Len(Chroms), s \in Coords, e \in Coords}

ValidTadRecords == {t \in TadRecords : t.start < t.end}

\* the order of the rows of a TAD table: by chromosome, start, end
TadLess(a, b) ==
    \/ ChromIdx(a.chrom) < ChromIdx(b.chrom)
    \/ a.chrom = b.chrom /\ a.start < b.start
    \/ a.chrom = b.chrom /\ a.start = b.start /\ a.end < b.end

RECURSIVE SortedSeq(_)
SortedSeq(S) ==
    IF S = {} THEN <<>>
    ELSE LET m == CHOOSE x \in S : \A y \in S \ {x} : TadLess(x, y)
         IN <<m>> \o SortedSeq(S \ {m})

TablesUpTo(n) == {SortedSeq(S) : S \in {T \in SUBSET ValidTadRecords : Cardinality(T) <= n}}

----------------------------------------------------------------------------
(* Sequence helpers *)

Range(s) == {s[i] : i \in 1..Len(s)}

RECURSIVE SumSeq(_)
SumSeq(s) == IF s = <<>> THEN 0 ELSE Head(s) + SumSeq(Tail(s))

\* order-preserving list of the distinct values of f over s (first appearance)
RECURSIVE Unique(_)
Unique(s) ==
    IF s = <<>> THEN <<>>
    ELSE LET r == Unique(SubSeq(s, 1, Len(s) - 1))
         IN IF s[Len(s)] \in Range(r) THEN r ELSE Append(r, s[Len(s)])

MinOf(S) == CHOOSE x \in S : \A y \in S : x <= y

MaxOf(S) == CHOOSE x \in S : \A y \in S : x >= y

----------------------------------------------------------------------------
(* Loading and per-chromosome selection *)

\* create_tads_tables: the two tables as read
create_tads_tables(f1, f2) == <<f1, f2>>

\* get_chrom_list: chromosomes of tad1, in order of first appearance, that tad2 has too
get_chrom_list(tad1, tad2) ==
    LET c1 == Unique([i \in 1..Len(tad1) |-> tad1[i].chrom])
        c2 == {tad2[i].chrom : i \in 1..Len(tad2)}
    IN SelectSeq(c1, LAMBDA c : c \in c2)

\* get_chroms_coords: the rows of each table on chrom, in table order
get_chroms_coords(tad1, tad2, chrom) ==
    <<SelectSeq(tad1, LAMBDA t : t.chrom = chrom),
      SelectSeq(tad2, LAMBDA t : t.chrom = chrom)>>

----------------------------------------------------------------------------
(* Coordinate normaliser *)

\* modify_tads_map_by_condition: the search window of each TAD (floats, times Den)
modify_tads_map_by_condition(tad1_chr_coords, bsize, length_flexibility) ==
    [i \in 1..Len(tad1_chr_coords) |->
        LET t == tad1_chr_coords[i]
        IN [chrom |-> t.chrom,
            start |-> Den * t.start - BinsizeCoefTimes(bsize),
            end   |-> Den * t.end + BinsizeCoefTimes(bsize),
            size  |-> (t.end - t.start) * length_flexibility * (Den \div FLEX_DEN)]]

\* add_size_column
add_size_column(tad2_chr_coords) ==
    [i \in 1..Len(tad2_chr_coords) |->
        LET t == tad2_chr_coords[i]
        IN [chrom |-> t.chrom, start |-> t.start, end |-> t.end,
            size |-> t.end - t.start]]

\* demodify_tads_map with the signs of the shift the other way round (the window
\* widened once more instead of narrowed)
demodify_rows_widening(rows, bsize) ==
    [i \in 1..Len(rows) |->
        LET r  == rows[i]
            s1 == r.start_tad1 - BinsizeCoefTimes(bsize)
            e1 == r.end_tad1 + BinsizeCoefTimes(bsize)
        IN [r EXCEPT !.start_tad1 = s1, !.end_tad1 = e1, !.size_tad1 = e1 - s1]]

\* demodify_tads_map on the rows of a table that has the columns
demodify_rows(rows, bsize) ==
    [i \in 1..Len(rows) |->
        LET r  == rows[i]
            s1 == r.start_tad1 + BinsizeCoefTimes(bsize)
            e1 == r.end_tad1 - BinsizeCoefTimes(bsize)
        IN [r EXCEPT !.start_tad1 = s1, !.end_tad1 = e1, !.size_tad1 = e1 - s1]]

----------------------------------------------------------------------------
(* Interval matcher *)

\* a DataFrame: whether it has the candidate columns, and its rows in order;
\* every row carries its index label
EmptyFrame == [columns |-> FALSE, rows |-> <<>>]

\* pd.merge(..., on='chrom', how='outer') of two one-chromosome tables: every
\* window with every small TAD, window-major, labelled 0, 1, 2, ...
merge_on_chrom(tad1_search_regs, tad2_comp_regs) ==
    [k \in 1..(Len(tad1_search_regs) * Len(tad2_comp_regs)) |->
        LET i == ((k - 1) \div Len(tad2_comp_regs)) + 1
            j == ((k - 1) % Len(tad2_comp_regs)) + 1
            a == tad1_search_regs[i]
            b == tad2_comp_regs[j]
        IN [label |-> k - 1, chrom |-> a.chrom,
            start_tad1 |-> a.start, end_tad1 |-> a.end, size_tad1 |-> a.size,
            start_tad2 |-> b.start, end_tad2 |-> b.end, size_tad2 |-> b.size]]

\* the pairwise filter of find_split
pair_filter(r) ==
    /\ r.start_tad1 <= Den * r.start_tad2
    /\ r.end_tad1 >= Den * r.end_tad2
    /\ r.size_tad1 >= Den * r.size_tad2

\* rows.duplicated(subset='start_tad1', keep=False)
duplicated_start_tad1(rows, r) ==
    \E i \in 1..Len(rows) : rows[i].label # r.label /\ rows[i].start_tad1 = r.start_tad1

\* the key of groupby(['chrom', 'start_tad1', 'end_tad1', 'size_tad1'])
group_key(r) == <<r.chrom, r.start_tad1, r.end_tad1, r.size_tad1>>

\* agg({'size_tad2': 'sum'}) of one group
group_size_tad2(rows, key) ==
    LET g == SelectSeq(rows, LAMBDA r : group_key(r) = key)
    IN SumSeq([i \in 1..Len(g) |-> g[i].size_tad2])

\* the start_tad1 values of the groups that pass query('size_tad1 >= size_tad2')
passing_starts(rows) ==
    {key[2] : key \in {k \in {group_key(rows[i]) : i \in 1..Len(rows)} :
                          k[4] >= Den * group_size_tad2(rows, k)}}

\* find_split for the tables of one chromosome
find_split(tad1_chr_coords, tad2_chr_coords, bsize, length_flexibility) ==
    LET tad1_search_regs == modify_tads_map_by_condition(tad1_chr_coords, bsize,
                                                         length_flexibility)
        tad2_comp_regs == add_size_column(tad2_chr_coords)
        merged   == merge_on_chrom(tad1_search_regs, tad2_comp_regs)
        pairs    == SelectSeq(merged, pair_filter)
        dups     == SelectSeq(pairs, LAMBDA r : duplicated_start_tad1(pairs, r))
        starts   == passing_starts(dups)
    IN [columns |-> TRUE,
        rows |-> SelectSeq(dups, LAMBDA r : r.start_tad1 \in starts)]

\* pd.concat([a, b], ignore_index=True): rows of a then of b, relabelled 0..n-1
concat_ignore_index(a, b) ==
    LET rs == a.rows \o b.rows
    IN [columns |-> a.columns \/ b.columns,
        rows |-> [i \in 1..Len(rs) |-> [rs[i] EXCEPT !.label = i - 1]]]

\* lines 336-342: the candidate table of an option, chromosome by chromosome;
\* main_split_merge_detection passes neither binsize nor length_flexibility
RECURSIVE accumulate(_, _, _, _)
accumulate(table, chroms, tad1, tad2) ==
    IF chroms = <<>> THEN table
    ELSE LET cc == get_chroms_coords(tad1, tad2, Head(chroms))
             fs == find_split(cc[1], cc[2], DEFAULT_BINSIZE, DEFAULT_FLEXIBILITY)
             nt == IF table.rows = <<>> THEN fs ELSE concat_ignore_index(table, fs)
         IN accumulate(nt, Tail(chroms), tad1, tad2)

----------------------------------------------------------------------------
(* Region and bin resolver, intensity comparator *)

\* the missing value find_coords returns when no interval holds the position
None == 0 - 1

\* find_region, on the floats of the main TAD (times Den) and the integers of the
\* small TADs; the region is held times Den
find_region(main_tad_coords, small_tads_coords) ==
    LET main_start  == main_tad_coords[2]
        main_end    == main_tad_coords[3]
        small_start == MaxOf({Den * MaxOf({p[1], p[2]}) : p \in Range(small_tads_coords)})
        small_end   == MinOf({Den * MinOf({p[1], p[2]}) : p \in Range(small_tads_coords)})
    IN <<main_tad_coords[1], MinOf({main_start, small_start}),
         MaxOf({main_end, small_end})>>

\* the test of line 174
holds_position(position, pair) == pair[1] <= position /\ position <= pair[2]

\* find_coords: index (from 0) of the first pair whose closed range holds the
\* position; the function falls off its end, returning None, when there is none
find_coords(position, coords) ==
    IF \E i \in 1..Len(coords) : holds_position(position, coords[i])
    THEN (CHOOSE i \in 1..Len(coords) :
            /\ holds_position(position, coords[i])
            /\ \A j \in 1..(i - 1) : ~holds_position(position, coords[j])) - 1
    ELSE None

\* a slice bound e + 1 of iloc (never reached with None: that is the TypeError)
Plus1(x) == x + 1

\* lines 212-217 with the four indices of lines 209-210.  Blocks are the iloc
\* slices <<row start, row stop, column start, column stop>>; a None bound is an
\* open end of the slice.  start_2 + 1 and end_2 + 1 are evaluated before the
\* first slice, end_1 + 1 after it.
intensity_blocks(st, s1, e1, s2, e2) ==
    IF s2 = None \/ e2 = None
    THEN [st EXCEPT !.bound = TRUE, !.s2 = s2, !.e2 = e2, !.status = "TypeError"]
    ELSE IF e1 = None
    THEN [st EXCEPT !.bound = TRUE, !.s2 = s2, !.e2 = e2, !.status = "TypeError",
                    !.square = Append(@, <<s1, e1, Plus1(s2), Plus1(e2)>>),
                    !.none_sliced = TRUE]
    ELSE [st EXCEPT !.bound = TRUE, !.s2 = s2, !.e2 = e2,
                    !.square = Append(@, <<s1, e1, Plus1(s2), Plus1(e2)>>),
                    !.hill = Append(@, <<s1, Plus1(e1), s1, Plus1(e1)>>),
                    !.none_sliced = @ \/ s1 = None]

\* the last block sliced without the "+ 1" of its stop bounds: the end bin of
\* the last small TAD left out
intensity_last_half_open(st) ==
    IF ~st.bound
    THEN [st EXCEPT !.status = "UnboundLocalError: start_2_corrected"]
    ELSE [st EXCEPT !.hill = Append(@, <<st.s2, st.e2, st.s2, st.e2>>)]

\* lines 202-206: the last small TAD, with start_2_corrected and end_2_corrected
\* as the pass before left them (st.bound is FALSE when they were never assigned)
intensity_last(st) ==
    IF ~st.bound
    THEN [st EXCEPT !.status = "UnboundLocalError: start_2_corrected"]
    ELSE [st EXCEPT !.hill = Append(@, <<st.s2, Plus1(st.e2), st.s2, Plus1(st.e2)>>)]

\* one pass of the loop of calculate_intensity, tad_id = k - 1
intensity_pass(st, k, small_tads_coords, coords) ==
    IF st.status # "ok" THEN st
    ELSE IF k = Len(small_tads_coords) THEN intensity_last(st)
    ELSE intensity_blocks(st,
                          find_coords(small_tads_coords[k][1], coords),
                          find_coords(small_tads_coords[k][2], coords),
                          find_coords(small_tads_coords[k + 1][1], coords),
                          find_coords(small_tads_coords[k + 1][2], coords))

RECURSIVE intensity_loop(_, _, _, _)
intensity_loop(st, k, small_tads_coords, coords) ==
    IF k > Len(small_tads_coords) THEN st
    ELSE intensity_loop(intensity_pass(st, k, small_tads_coords, coords), k + 1,
                        small_tads_coords, coords)

\* the pvalue column before any broadcast (np.nan)
NaN == [region |-> <<>>, square |-> <<>>, hill |-> <<>>]

\* calculate_pvalue: the test is a function of the values of the difference matrix
\* in the blocks of the two samples; the model keeps what determines it
calculate_pvalue(region, square_intensity, hill_intensity) ==
    [region |-> region, square |-> square_intensity, hill |-> hill_intensity]

\* line 219 after the loop: the p-value, or the exception that ended the loop
intensity_result(region, st) ==
    [status |-> st.status, square |-> st.square, hill |-> st.hill,
     none_sliced |-> st.none_sliced,
     pvalue |-> IF st.status = "ok" THEN calculate_pvalue(region, st.square, st.hill)
                ELSE NaN]

\* calculate_intensity on the difference matrix of a region
calculate_intensity(region, small_tads_coords, coords) ==
    intensity_result(region,
        intensity_loop([status |-> "ok", bound |-> FALSE, s2 |-> None, e2 |-> None,
                        square |-> <<>>, hill |-> <<>>, none_sliced |-> FALSE],
                       1, small_tads_coords, coords))

\* clr.bins().fetch(region) as (start, end) pairs: the bins of width resolution
\* that overlap the region, in ascending order (the region is held times Den)
cooler_bins(region, res) ==
    [i \in 1..((((region[3] + Den * res - 1) \div (Den * res)) - 1)
               - (IF region[2] < 0 THEN 0 ELSE region[2] \div (Den * res)) + 1) |->
        <<((IF region[2] < 0 THEN 0 ELSE region[2] \div (Den * res)) + i - 1) * res,
          ((IF region[2] < 0 THEN 0 ELSE region[2] \div (Den * res)) + i) * res>>]

\* lines 234-240 for the region of line 233
diff_matrix_of(region, small_tads_coords, res) ==
    calculate_intensity(region, small_tads_coords, cooler_bins(region, res))

\* create_diff_matrix: the p-value of one group, or the exception raised
create_diff_matrix(main_tad_coords, small_tads_coords, res) ==
    diff_matrix_of(find_region(main_tad_coords, small_tads_coords), small_tads_coords, res)

----------------------------------------------------------------------------
(* choose_region *)

row_main(r) == <<r.chrom, r.start_tad1, r.end_tad1>>

row_small(r) == <<r.start_tad2, r.end_tad2>>

\* the broadcast with a slice that leaves its last label out (first:last as a
\* positional slice would)
broadcast_half_open(rows, big_tad_indicies, pvalue) ==
    [i \in 1..Len(rows) |->
        IF /\ big_tad_indicies[1] <= rows[i].label
           /\ rows[i].label < big_tad_indicies[Len(big_tad_indicies)]
        THEN [rows[i] EXCEPT !.pvalue = pvalue] ELSE rows[i]]

\* df.loc[first:last, 'pvalue'] = pvalue: a slice by label, both ends included
broadcast(rows, big_tad_indicies, pvalue) ==
    [i \in 1..Len(rows) |->
        IF /\ big_tad_indicies[1] <= rows[i].label
           /\ rows[i].label <= big_tad_indicies[Len(big_tad_indicies)]
        THEN [rows[i] EXCEPT !.pvalue = pvalue] ELSE rows[i]]

\* lines 264-266 / 277-279 with the scorer's outcome sc
apply_score(st, sc) ==
    IF sc.status = "ok"
    THEN [st EXCEPT !.calls = Append(@, [main |-> st.main_tad_coords,
                                         small |-> st.small_tads_coords]),
                    !.rows = broadcast(st.rows, st.big_tad_indicies, sc.pvalue)]
    ELSE [st EXCEPT !.calls = Append(@, [main |-> st.main_tad_coords,
                                         small |-> st.small_tads_coords]),
                    !.status = sc.status]

\* lines 262-266 and 275-279: score the rows collected so far and broadcast
score_collected(st, res) ==
    apply_score(st, create_diff_matrix(st.main_tad_coords, st.small_tads_coords, res))

\* lines 258-259
bind_main(st, row) ==
    IF row.label = 0 THEN [st EXCEPT !.main_tad_coords = row_main(row)] ELSE st

\* lines 267-269, after the scoring of the group that ended
reset_group(sc, row) ==
    IF sc.status # "ok" THEN sc
    ELSE [sc EXCEPT !.main_tad_coords = row_main(row),
                    !.small_tads_coords = <<>>,
                    !.big_tad_indicies = <<>>]

\* lines 261-269
change_main(st, row, res) ==
    IF st.main_tad_coords # row_main(row)
    THEN reset_group(score_collected(st, res), row)
    ELSE st

\* lines 271-272
collect(st, row) ==
    [st EXCEPT !.big_tad_indicies = Append(@, row.label),
               !.small_tads_coords = Append(@, row_small(row))]

\* lines 274-279
pass_last(st, row, res) ==
    IF row.label = st.rows[Len(st.rows)].label THEN score_collected(st, res) ELSE st

\* lines 271-279, unless line 262 raised
pass_collect(st, row, res) ==
    IF st.status # "ok" THEN st ELSE pass_last(collect(st, row), row, res)

\* lines 261-279; main_tad_coords is <<>> while unbound, and its first read raises
pass_bound(st, row, res) ==
    IF st.main_tad_coords = <<>>
    THEN [st EXCEPT !.status = "UnboundLocalError: main_tad_coords"]
    ELSE pass_collect(change_main(st, row, res), row, res)

\* one pass of the loop over df.iterrows()
choose_pass(st, i, res) ==
    IF st.status # "ok" THEN st
    ELSE pass_bound(bind_main(st, st.rows[i]), st.rows[i], res)

RECURSIVE choose_loop(_, _, _)
choose_loop(st, i, res) ==
    IF i > Len(st.rows) THEN st
    ELSE choose_loop(choose_pass(st, i, res), i + 1, res)

\* lines 254-255: the frame gets the pvalue column, NaN in every row
with_nan_pvalue(rows) ==
    [i \in 1..Len(rows) |->
        [label |-> rows[i].label, chrom |-> rows[i].chrom,
         start_tad1 |-> rows[i].start_tad1, end_tad1 |-> rows[i].end_tad1,
         size_tad1 |-> rows[i].size_tad1, start_tad2 |-> rows[i].start_tad2,
         end_tad2 |-> rows[i].end_tad2, size_tad2 |-> rows[i].size_tad2,
         pvalue |-> NaN]]

\* choose_region: [status, rows (with pvalue), calls, ...]
choose_region(df, res) ==
    choose_loop([status |-> "ok", rows |-> with_nan_pvalue(df.rows),
                 calls |-> <<>>, main_tad_coords |-> <<>>,
                 small_tads_coords |-> <<>>, big_tad_indicies |-> <<>>],
                1, res)

----------------------------------------------------------------------------
(* save_frame and the count *)

\* rename(columns=...) and drop(columns=['size_tad1', 'size_tad2']) of save_frame:
\* the main TAD goes to start_1/end_1 for 'split' and to start_2/end_2 for 'merge'.
\* main_is_1 says which pair of columns holds the main TAD (floats, times Den).
rename_and_drop(rows, opt) ==
    [i \in 1..Len(rows) |->
        LET r == rows[i]
        IN IF opt = "merge"
           THEN [label |-> r.label, chrom |-> r.chrom, main_is_1 |-> FALSE,
                 start_2 |-> r.start_tad1, end_2 |-> r.end_tad1,
                 start_1 |-> r.start_tad2, end_1 |-> r.end_tad2, pvalue |-> r.pvalue]
           ELSE [label |-> r.label, chrom |-> r.chrom, main_is_1 |-> TRUE,
                 start_1 |-> r.start_tad1, end_1 |-> r.end_tad1,
                 start_2 |-> r.start_tad2, end_2 |-> r.end_tad2, pvalue |-> r.pvalue]]

\* final_table[['start_tad1', 'end_tad1']].drop_duplicates().shape[0]
count_episodes(rows) == Cardinality({<<rows[i].start_tad1, rows[i].end_tad1>> : i \in 1..Len(rows)})

OptionName(o) == IF o = 1 THEN "split" ELSE "merge"

NoFile == [written |-> FALSE, rows |-> <<>>]

NoResult == [kind |-> "pending", value |-> <<>>]

----------------------------------------------------------------------------
(* The pipeline: wrapper_print(main_split_merge_detection) *)

Binsizes == {DEFAULT_BINSIZE, DEFAULT_BINSIZE \div 2}

Resolutions == {DEFAULT_BINSIZE}

NormIdle == [pc_n |-> "off", tad |-> <<>>, bsize |-> 0, flex |-> 0,
             window |-> <<>>, back |-> <<>>]

CIIdle == [pc_c |-> "off", small |-> <<>>, coords |-> <<>>, position |-> 0,
           found |-> None, out |-> <<>>]

\* the state before the decorated function is called with these arguments
PipeStart(t1, t2, b, r) ==
    /\ tad1_file = t1
    /\ tad2_file = t2
    /\ binsize = b
    /\ resolution = r
    /\ pc = "idle"
    /\ option = 0
    /\ final_table = EmptyFrame
    /\ calls = <<>>
    /\ files = [o \in {"split", "merge"} |-> NoFile]
    /\ split_merge_episodes = <<>>
    /\ raised = "none"
    /\ result = NoResult
    /\ stdout = <<>>
    /\ stderr = "none"

PipeInit ==
    \E t1 \in TablesUpTo(MaxMain), t2 \in TablesUpTo(MaxSmall),
       b \in Binsizes, r \in Resolutions : PipeStart(t1, t2, b, r)

\* the pipeline variables of a specification that does not run the pipeline
PipeOff ==
    /\ PipeStart(<<>>, <<>>, DEFAULT_BINSIZE, DEFAULT_BINSIZE)

\* wrapper lines 28-31 and main lines 326-328: the call starts
Call ==
    /\ pc = "idle"
    /\ norm = NormIdle
    /\ ci = CIIdle
    /\ pc' = "match"
    /\ option' = 1
    /\ split_merge_episodes' = <<>>
    /\ UNCHANGED <<inputVars, final_table, calls, files, raised, result, stdout, stderr,
                   norm, ci>>

\* main lines 330-342: load the tables, swap them for 'merge', match every
\* common chromosome
MatchOption ==
    /\ pc = "match"
    /\ LET loaded == create_tads_tables(tad1_file, tad2_file)
           tad1   == IF OptionName(option) = "merge" THEN loaded[2] ELSE loaded[1]
           tad2   == IF OptionName(option) = "merge" THEN loaded[1] ELSE loaded[2]
       IN final_table' = accumulate(EmptyFrame, get_chrom_list(tad1, tad2), tad1, tad2)
    /\ calls' = <<>>
    /\ pc' = "score"
    /\ UNCHANGED <<inputVars, option, files, split_merge_episodes, raised, result,
                   stdout, stderr, norm, ci>>

\* main line 343: choose_region returns the table with its p-values, or raises
ChooseRegion ==
    /\ pc = "score"
    /\ LET r == choose_region(final_table, resolution)
       IN /\ calls' = r.calls
          /\ IF r.status = "ok"
             THEN /\ final_table' = [final_table EXCEPT !.rows = r.rows]
                  /\ pc' = "save"
                  /\ raised' = "none"
             ELSE /\ final_table' = [final_table EXCEPT !.rows = r.rows]
                  /\ pc' = "raised"
                  /\ raised' = r.status
    /\ UNCHANGED <<inputVars, option, files, split_merge_episodes, result, stdout,
                   stderr, norm, ci>>

\* main line 344: save_frame de-normalises the frame in place (KeyError when it
\* has no start_tad1 column), renames, drops the sizes and writes the file
SaveFrame ==
    /\ pc = "save"
    /\ IF final_table.columns
       THEN LET rows == demodify_rows(final_table.rows, binsize)
            IN /\ final_table' = [final_table EXCEPT !.rows = rows]
               /\ files' = [files EXCEPT ![OptionName(option)] =
                              [written |-> TRUE,
                               rows |-> rename_and_drop(rows, OptionName(option))]]
               /\ pc' = "count"
               /\ raised' = "none"
       ELSE /\ pc' = "raised"
            /\ raised' = "KeyError"
            /\ UNCHANGED <<final_table, files>>
    /\ UNCHANGED <<inputVars, option, calls, split_merge_episodes, result, stdout,
                   stderr, norm, ci>>

\* main line 345, then the next option or line 346
CountEpisodes ==
    /\ pc = "count"
    /\ split_merge_episodes' = Append(split_merge_episodes, count_episodes(final_table.rows))
    /\ IF option = 1
       THEN /\ option' = 2
            /\ pc' = "match"
       ELSE /\ option' = option
            /\ pc' = "return"
    /\ UNCHANGED <<inputVars, final_table, calls, files, raised, result, stdout, stderr,
                   norm, ci>>

\* wrapper lines 31-37, 40: the function returned; the wrapper prints the result
\* and itself returns nothing
WrapperReturn ==
    /\ pc = "return"
    /\ stdout' = split_merge_episodes
    /\ result' = [kind |-> "None", value |-> <<>>]
    /\ pc' = "done"
    /\ UNCHANGED <<inputVars, option, final_table, calls, files, split_merge_episodes,
                   raised, stderr, norm, ci>>

\* wrapper lines 38-40: any exception is caught, its traceback printed
WrapperExcept ==
    /\ pc = "raised"
    /\ stderr' = raised
    /\ result' = [kind |-> "None", value |-> <<>>]
    /\ pc' = "done"
    /\ UNCHANGED <<inputVars, option, final_table, calls, files, split_merge_episodes,
                   raised, stdout, norm, ci>>

Init ==
    /\ PipeInit
    /\ norm = NormIdle
    /\ ci = CIIdle

Next ==
    \/ Call
    \/ MatchOption
    \/ ChooseRegion
    \/ SaveFrame
    \/ CountEpisodes
    \/ WrapperReturn
    \/ WrapperExcept

Spec == Init /\ [][Next]_vars

----------------------------------------------------------------------------
(* Matching and scoring of the first option, on tables that carry the same     *)
(* TADs on each of their chromosomes                                           *)

Intervals == {iv \in Coords \X Coords : iv[1] < iv[2]}

\* the tables with at most n TADs per chromosome, the same TADs on each of the
\* first m chromosomes
PlacedTables(n) ==
    {SortedSeq({[chrom |-> Chroms[c], start |-> iv[1], end |-> iv[2]] :
                   c \in 1..m, iv \in S}) :
        S \in {T \in SUBSET Intervals : Cardinality(T) <= n},
        m \in 1..Len(Chroms)}

InitCR ==
    /\ \E t1 \in PlacedTables(MaxMain), t2 \in PlacedTables(MaxSmall), r \in Resolutions :
          PipeStart(t1, t2, DEFAULT_BINSIZE, r)
    /\ norm = NormIdle
    /\ ci = CIIdle

NextCR ==
    \/ Call
    \/ MatchOption
    \/ ChooseRegion

SpecCR == InitCR /\ [][NextCR]_vars

----------------------------------------------------------------------------
(* Normalisation followed by de-normalisation of one TAD *)

\* binsizes 1..MaxNormBinsize and the ones of the pipeline
MaxNormBinsize == 3

NormBinsizes == (1..MaxNormBinsize) \cup Binsizes

\* flexibility factors in tenths, 1.0 .. MaxFlexibility/10
MaxFlexibility == 13

Flexibilities == FLEX_DEN..MaxFlexibility

InitNorm ==
    /\ PipeOff
    /\ ci = CIIdle
    /\ \E t \in ValidTadRecords, b \in NormBinsizes, f \in Flexibilities :
          norm = [pc_n |-> "start", tad |-> t, bsize |-> b, flex |-> f,
                  window |-> <<>>, back |-> <<>>]

\* find_split lines 127-130 on a table of this one TAD: its window, as the row
\* of the candidate table that pairs it with itself
Normalise ==
    /\ norm.pc_n = "start"
    /\ norm' = [norm EXCEPT
                  !.pc_n = "normalised",
                  !.window = merge_on_chrom(
                                modify_tads_map_by_condition(<<norm.tad>>, norm.bsize,
                                                             norm.flex),
                                add_size_column(<<norm.tad>>))]
    /\ UNCHANGED <<inputVars, pc, option, final_table, calls, files,
                   split_merge_episodes, raised, result, stdout, stderr, ci>>

\* demodify_tads_map with the same binsize
Denormalise ==
    /\ norm.pc_n = "normalised"
    /\ norm' = [norm EXCEPT !.pc_n = "denormalised",
                            !.back = demodify_rows(norm.window, norm.bsize)]
    /\ UNCHANGED <<inputVars, pc, option, final_table, calls, files,
                   split_merge_episodes, raised, result, stdout, stderr, ci>>

NextNorm ==
    \/ Normalise
    \/ Denormalise

SpecNorm == InitNorm /\ [][NextNorm]_vars

----------------------------------------------------------------------------
(* calculate_intensity and find_coords called on their own *)

\* positions 0..MaxPos, at most MaxGroup small TADs, at most MaxBins bins
MaxPos == 4

MaxGroup == 3

MaxBins == 4

Positions == 0..MaxPos

\* small TADs in order along the chromosome: each starts where the one before
\* ends or later
SmallTadLists ==
    UNION {{g \in [1..n -> {p \in Positions \X Positions : p[1] < p[2]}] :
               \A k \in 1..(n - 1) : g[k][2] <= g[k + 1][1]} : n \in 1..MaxGroup}

\* bins of equal width, one after the other
BinLists ==
    {[i \in 1..n |-> <<a + (i - 1) * w, a + i * w>>] :
        a \in 0..1, w \in 1..2, n \in 1..MaxBins}

InitCI ==
    /\ PipeOff
    /\ norm = NormIdle
    /\ \E g \in SmallTadLists, c \in BinLists, x \in Positions :
          ci = [pc_c |-> "start", small |-> g, coords |-> c, position |-> x,
                found |-> None, out |-> <<>>]

\* find_coords(position, coords)
FindCoords ==
    /\ ci.pc_c = "start"
    /\ ci' = [ci EXCEPT !.pc_c = "found", !.found = find_coords(ci.position, ci.coords)]
    /\ UNCHANGED <<inputVars, pc, option, final_table, calls, files,
                   split_merge_episodes, raised, result, stdout, stderr, norm>>

\* calculate_intensity(diff_matrix, small_tads_coords, coords)
CalculateIntensity ==
    /\ ci.pc_c = "found"
    /\ ci' = [ci EXCEPT !.pc_c = "done",
                        !.out = <<calculate_intensity(<<>>, ci.small, ci.coords)>>]
    /\ UNCHANGED <<inputVars, pc, option, final_table, calls, files,
                   split_merge_episodes, raised, result, stdout, stderr, norm>>

NextCI ==
    \/ FindCoords
    \/ CalculateIntensity

SpecCI == InitCI /\ [][NextCI]_vars

----------------------------------------------------------------------------
(* Properties *)

\* the rows of the group of row r: those with its chrom, start_tad1, end_tad1
GroupOf(rows, r) == SelectSeq(rows, LAMBDA q : row_main(q) = row_main(r))

SmallsOf(rows) == [i \in 1..Len(rows) |-> row_small(rows[i])]

GroupSizeTad2(rows, r) ==
    SumSeq([i \in 1..Len(GroupOf(rows, r)) |-> GroupOf(rows, r)[i].size_tad2])

\* the maximal runs of consecutive rows with the same main TAD, in table order,
\* each as the arguments of a scorer call
RECURSIVE RunsOf(_)
RunsOf(rows) ==
    IF rows = <<>> THEN <<>>
    ELSE LET before == RunsOf(SubSeq(rows, 1, Len(rows) - 1))
             r      == rows[Len(rows)]
         IN IF Len(rows) > 1 /\ row_main(rows[Len(rows) - 1]) = row_main(r)
            THEN [before EXCEPT ![Len(before)].small = Append(@, row_small(r))]
            ELSE Append(before, [main |-> row_main(r), small |-> <<row_small(r)>>])

\* C1: in the candidate table find_split builds (here: the table of an option
\* when matching is over), every group of rows sharing chrom, start_tad1 and
\* end_tad1 has at least 2 rows.
C1_GroupsHaveTwoRows ==
    pc = "score" =>
        \A i \in 1..Len(final_table.rows) :
            Len(GroupOf(final_table.rows, final_table.rows[i])) >= 2

\* C2: when choose_region has returned, every row carries the p-value the scorer
\* gives for the row's group (its main TAD and the small TADs of all the rows of
\* the group, in order), so the rows of a group agree, and no row keeps NaN.
C2_GroupPvalue ==
    pc = "save" =>
        \A i \in 1..Len(final_table.rows) :
            /\ final_table.rows[i].pvalue # NaN
            /\ final_table.rows[i].pvalue =
                 create_diff_matrix(row_main(final_table.rows[i]),
                                    SmallsOf(GroupOf(final_table.rows, final_table.rows[i])),
                                    resolution).pvalue

\* C2 witness: choose_region returned a table of two chromosomes whose groups
\* got different p-values
C2_Witness ==
    /\ pc = "save"
    /\ \E i, j \in 1..Len(final_table.rows) :
          /\ final_table.rows[i].chrom # final_table.rows[j].chrom
          /\ final_table.rows[i].pvalue # final_table.rows[j].pvalue
          /\ Len(GroupOf(final_table.rows, final_table.rows[i])) >= 2

\* the number of distinct main TADs (start, end) in the table written for an option
FileGroups(o) ==
    Cardinality({IF files[o].rows[i].main_is_1
                 THEN <<files[o].rows[i].start_1, files[o].rows[i].end_1>>
                 ELSE <<files[o].rows[i].start_2, files[o].rows[i].end_2>> :
                 i \in 1..Len(files[o].rows)})

\* C3: a call of the decorated main_split_merge_detection that ends without an
\* exception returns to its caller the pair (split count, merge count), each the
\* number of distinct (start_tad1, end_tad1) of the option's final table.
C3_ReturnsCounts ==
    (pc = "done" /\ stderr = "none") =>
        result = [kind |-> "tuple",
                  value |-> <<FileGroups("split"), FileGroups("merge")>>]

\* C4: de-normalising with binsize b the window that normalising with b made
\* gives back start and end of the TAD, and size_tad1 = end - start, whatever the
\* flexibility factor.
C4_RoundTrip ==
    norm.pc_n = "denormalised" =>
        /\ norm.back[1].start_tad1 = Den * norm.tad.start
        /\ norm.back[1].end_tad1 = Den * norm.tad.end
        /\ norm.back[1].size_tad1 = Den * (norm.tad.end - norm.tad.start)

\* C4 witness: a round trip with an odd binsize (a window on half-integers) and a
\* flexibility above 1, whose window differs from the TAD in start, end and size
C4_Witness ==
    /\ norm.pc_n = "denormalised"
    /\ norm.bsize % 2 = 1
    /\ norm.flex > FLEX_DEN
    /\ norm.window[1].start_tad1 < Den * norm.tad.start
    /\ norm.window[1].end_tad1 > Den * norm.tad.end
    /\ norm.window[1].size_tad1 > Den * (norm.tad.end - norm.tad.start)

\* C5: in the candidate table find_split builds, the sizes of the small TADs of
\* every group sum to at most the group's tolerance-adjusted size_tad1.
C5_GroupSizeFilter ==
    pc = "score" =>
        \A i \in 1..Len(final_table.rows) :
            Den * GroupSizeTad2(final_table.rows, final_table.rows[i])
                <= final_table.rows[i].size_tad1

\* C6: a call that ended with an exception caught by the wrapper left no output
\* table written and reported no counts.
C6_NoPartialOutput ==
    (pc = "done" /\ stderr # "none") =>
        /\ \A o \in {"split", "merge"} : ~files[o].written
        /\ stdout = <<>>
        /\ result.kind # "tuple"

\* C7: an option whose candidate table is empty raises nothing (in choose_region
\* or save_frame), and the count appended for it is 0.
C7_EmptyTablePropagates ==
    /\ pc = "raised" => final_table.rows # <<>>
    /\ (pc \in {"match", "return"} /\ split_merge_episodes # <<>>
           /\ final_table.rows = <<>>)
         => split_merge_episodes[Len(split_merge_episodes)] = 0

\* the positions calculate_intensity looks up
LookedUp(small) == UNION {{small[k][1], small[k][2]} : k \in 1..Len(small)}

\* C8: find_coords gives the index of the first interval whose closed range holds
\* the position; when a position calculate_intensity looks up lies outside every
\* interval the call fails, and no slice of the difference matrix is taken with
\* the missing index.
C8_NotFoundIsFatal ==
    /\ (ci.pc_c \in {"found", "done"} /\ ci.found # None) =>
          /\ holds_position(ci.position, ci.coords[ci.found + 1])
          /\ \A j \in 1..ci.found : ~holds_position(ci.position, ci.coords[j])
    /\ ci.pc_c = "done" =>
          /\ (\E x \in LookedUp(ci.small) :
                 \A j \in 1..Len(ci.coords) : ~holds_position(x, ci.coords[j]))
               => ci.out[1].status # "ok"
          /\ ~ci.out[1].none_sliced

\* C9: for a non-empty candidate table (here: one whose groups all have two rows
\* or more, so that the scorer has its two samples) choose_region returns, having
\* called the scorer once per maximal run of rows with the same main TAD, in
\* table order, with that run's main TAD and small TADs.
C9_ScoresEveryRun ==
    (/\ pc \in {"save", "raised"}
     /\ final_table.rows # <<>>
     /\ \A i \in 1..Len(final_table.rows) :
           Len(GroupOf(final_table.rows, final_table.rows[i])) >= 2)
      => /\ pc = "save"
         /\ calls = RunsOf(final_table.rows)

\* the table the main TADs of an option come from
MainSource(o) == IF o = "merge" THEN tad2_file ELSE tad1_file

\* C10: the main-TAD coordinates of every row written (start_1/end_1 for split,
\* start_2/end_2 for merge) are the start and end of a TAD record of the input
\* table, on the row's chromosome.
C10_ReportsOriginalCoords ==
    \A o \in {"split", "merge"} :
        \A i \in 1..Len(files[o].rows) :
            \E k \in 1..Len(MainSource(o)) :
                /\ MainSource(o)[k].chrom = files[o].rows[i].chrom
                /\ Den * MainSource(o)[k].start =
                     (IF o = "merge" THEN files[o].rows[i].start_2
                      ELSE files[o].rows[i].start_1)
                /\ Den * MainSource(o)[k].end =
                     (IF o = "merge" THEN files[o].rows[i].end_2
                      ELSE files[o].rows[i].end_1)

\* the bin of the start and of the end of the k-th small TAD of the call
StartBin(k) == find_coords(ci.small[k][1], ci.coords)

EndBin(k) == find_coords(ci.small[k][2], ci.coords)

\* every position calculate_intensity looks up lies in some bin
AllFound ==
    \A x \in LookedUp(ci.small) :
        \E j \in 1..Len(ci.coords) : holds_position(x, ci.coords[j])

\* C11: for n >= 2 small TADs in order whose positions all lie in the bins,
\* calculate_intensity returns having built n hill blocks, the k-th the diagonal
\* block over the bins StartBin(k)..EndBin(k) inclusive of the k-th small TAD
\* (the last one included), and n - 1 square blocks, the k-th with its rows
\* inside the bin range of small TAD k and its columns inside the bin range of
\* small TAD k + 1; there is no square block for the last small TAD.
C11_HillAndSquareBlocks ==
    (ci.pc_c = "done" /\ Len(ci.small) >= 2 /\ AllFound) =>
        /\ ci.out[1].status = "ok"
        /\ Len(ci.out[1].hill) = Len(ci.small)
        /\ Len(ci.out[1].square) = Len(ci.small) - 1
        /\ \A k \in 1..Len(ci.small) :
              ci.out[1].hill[k] =
                  <<StartBin(k), EndBin(k) + 1, StartBin(k), EndBin(k) + 1>>
        /\ \A k \in 1..(Len(ci.small) - 1) :
              /\ StartBin(k) <= ci.out[1].square[k][1]
              /\ ci.out[1].square[k][2] <= EndBin(k) + 1
              /\ StartBin(k + 1) <= ci.out[1].square[k][3]
              /\ ci.out[1].square[k][4] <= EndBin(k + 1) + 1

\* C11 witness: a call with three small TADs, all found, each over two bins or
\* more, has returned with three hill blocks and two non-empty square blocks
C11_Witness ==
    /\ ci.pc_c = "done"
    /\ Len(ci.small) = 3
    /\ AllFound
    /\ ci.out[1].status = "ok"
    /\ Len(ci.out[1].hill) = 3
    /\ Len(ci.out[1].square) = 2
    /\ \A k \in 1..2 :
          /\ ci.out[1].square[k][1] < ci.out[1].square[k][2]
          /\ ci.out[1].square[k][3] < ci.out[1].square[k][4]

====
